---- MODULE Spec2Model ----
(***************************************************************************)
(* The pomodoro timer of src/src/App.tsx (App component) as a state        *)
(* machine.  The React state cells and the ref are the variables.  Every   *)
(* action is one callback of the component together with the re-render it  *)
(* schedules and the timer bookkeeping (setInterval / setTimeout and their *)
(* cleanups) that the commit of that render performs:                      *)
(*   - the three click handlers,                                           *)
(*   - the setInterval callback (one tick),                                *)
(*   - the body of the expiry effect and of the auto-restart effect, which *)
(*     are passive effects: they run after the commit that enabled them,   *)
(*     as steps of their own, so a click may come in between,              *)
(*   - the setTimeout callback that clears the flash.                      *)
(***************************************************************************)
EXTENDS Integers, Naturals, Sequences, FiniteSets, TLC

VARIABLES
    phase,               \* useState<Phase>('focus')
    timeLeft,            \* useState(FOCUS_DURATION)
    isRunning,           \* useState(false)
    completedPomodoros,  \* useState(0)
    flash,               \* useState(false)
    autoRestartRef,      \* useRef(false).current
    intervals,           \* number of live setInterval timers of the countdown effect
    flashTimers,         \* number of pending setTimeout timers of the flash effect
    cue,                 \* what playBeep did in the last step: "none", "played", "swallowed", "thrown"
    event,               \* the callback that made the last step
    obs                  \* counters of the untouched run (ticks, expiries, beeps, flash on/off,
                         \* setTimeout calls)

vars == <<phase, timeLeft, isRunning, completedPomodoros, flash, autoRestartRef,
          intervals, flashTimers, cue, event, obs>>

(***************************************************************************)
(* Bounds of the model.                                                    *)
(***************************************************************************)
MaxCompleted == 2

MaxTicks == 10802

(***************************************************************************)
(* Constants and pure helpers of the component.                            *)
(***************************************************************************)
FOCUS_DURATION == 25 * 60

BREAK_DURATION == 5 * 60

Phase == {"focus", "break"}

\* initialDuration = isFocus ? FOCUS_DURATION : BREAK_DURATION
initialDuration(p) == IF p = "focus" THEN FOCUS_DURATION ELSE BREAK_DURATION

\* the phase the expiry effect and handleSkip switch to
nextPhase(p) == IF p = "focus" THEN "break" ELSE "focus"

\* the updater of the interval callback: t => (t > 0 ? t - 1 : 0)
decrement_unclamped(t) == t - 1

decrement(t) == IF t > 0 THEN t - 1 ELSE 0

\* the branches of the expiry effect: only an expiring break does
\* setCompletedPomodoros(c => c + 1)
completedAfterExpiry_always(p, c) == c + 1

completedAfterExpiry_never(p, c) == c

completedAfterExpiry(p, c) == IF p = "focus" THEN c ELSE c + 1

\* playBeep: the AudioContext calls sit in try { } catch { }, so a failing
\* audio capability never throws out of it.
playBeep_uncaught(audioAvailable) ==
    IF audioAvailable THEN [cue |-> "played", threw |-> FALSE]
                      ELSE [cue |-> "thrown", threw |-> TRUE]

playBeep(audioAvailable) ==
    IF audioAvailable THEN [cue |-> "played", threw |-> FALSE]
                      ELSE [cue |-> "swallowed", threw |-> FALSE]

\* startLabel = isRunning ? pause : timeLeft === initialDuration ? start : resume
\* (the three button texts, named here by their meaning)
startLabel_fullFirst(running, t, p) ==
    IF t = initialDuration(p) THEN "Start"
    ELSE IF running THEN "Pause" ELSE "Resume"

startLabel(running, t, p) ==
    IF running THEN "Pause"
    ELSE IF t = initialDuration(p) THEN "Start" ELSE "Resume"

\* cyclePos = completedPomodoros % 4
\* filledDots = completedPomodoros > 0 && cyclePos === 0 ? 4 : cyclePos
filledDots_cyclePos(c) == c % 4

filledDots(c) ==
    LET cyclePos == c % 4 IN
    IF c > 0 /\ cyclePos = 0 THEN 4 ELSE cyclePos

\* The countdown effect, deps [isRunning]: when isRunning changed in a commit,
\* the cleanup of the previous run clears its interval (there is one only if
\* that run saw isRunning true), then the effect sets a new one if running.
countdownEffect_noGuard(wasRunning, nowRunning, n) ==
    IF wasRunning = nowRunning THEN n
    ELSE (IF wasRunning /\ n > 0 THEN n - 1 ELSE n) + 1

countdownEffect_noCleanup(wasRunning, nowRunning, n) ==
    IF wasRunning = nowRunning THEN n ELSE n + (IF nowRunning THEN 1 ELSE 0)

countdownEffect(wasRunning, nowRunning, n) ==
    IF wasRunning = nowRunning THEN n
    ELSE (IF wasRunning /\ n > 0 THEN n - 1 ELSE n) + (IF nowRunning THEN 1 ELSE 0)

\* The flash effect, deps [flash]: it runs in a commit only when flash changed
\* (setFlash(true) while flash is true changes nothing); then the cleanup
\* of the previous run clears its timeout (if still pending), and the effect
\* arms a new one if flash is true.
flashEffectRuns_always(wasFlash, nowFlash) == TRUE

flashEffectRuns(wasFlash, nowFlash) == wasFlash # nowFlash

flashEffect(wasFlash, nowFlash, n) ==
    IF ~flashEffectRuns(wasFlash, nowFlash) THEN n
    ELSE (IF wasFlash /\ n > 0 THEN n - 1 ELSE n) + (IF nowFlash THEN 1 ELSE 0)

(***************************************************************************)
(* Initial state: the useState / useRef initial values; no effect has      *)
(* anything to do after the first render.                                  *)
(***************************************************************************)
Init ==
    /\ phase = "focus"
    /\ timeLeft = FOCUS_DURATION
    /\ isRunning = FALSE
    /\ completedPomodoros = 0
    /\ flash = FALSE
    /\ autoRestartRef = FALSE
    /\ intervals = 0
    /\ flashTimers = 0
    /\ cue = "none"
    /\ event = "init"
    /\ obs = [ticks |-> 0, expiries |-> 0, beeps |-> 0, flashOn |-> 0, flashOff |-> 0,
              armed |-> 0]

(***************************************************************************)
(* The callbacks.                                                          *)
(***************************************************************************)

\* setInterval callback: setTimeLeft(t => (t > 0 ? t - 1 : 0))
intervalTick ==
    /\ intervals > 0
    /\ timeLeft' = decrement(timeLeft)
    /\ cue' = "none"
    /\ event' = "tick"
    /\ UNCHANGED <<phase, isRunning, completedPomodoros, flash, autoRestartRef,
                   intervals, flashTimers>>

\* handleStartPause = () => setIsRunning(r => !r)
handleStartPause_restarts ==
    /\ isRunning' = ~isRunning
    /\ intervals' = countdownEffect(isRunning, ~isRunning, intervals)
    /\ timeLeft' = IF isRunning THEN timeLeft ELSE initialDuration(phase)
    /\ cue' = "none"
    /\ event' = "startPause"
    /\ UNCHANGED <<phase, completedPomodoros, flash, autoRestartRef, flashTimers>>

handleStartPause ==
    /\ isRunning' = ~isRunning
    /\ intervals' = countdownEffect(isRunning, ~isRunning, intervals)
    /\ cue' = "none"
    /\ event' = "startPause"
    /\ UNCHANGED <<phase, timeLeft, completedPomodoros, flash, autoRestartRef, flashTimers>>

\* handleSkip
handleSkip_stops ==
    /\ autoRestartRef' = FALSE
    /\ phase' = nextPhase(phase)
    /\ timeLeft' = initialDuration(nextPhase(phase))
    /\ isRunning' = FALSE
    /\ intervals' = countdownEffect(isRunning, FALSE, intervals)
    /\ cue' = "none"
    /\ event' = "skip"
    /\ UNCHANGED <<completedPomodoros, flash, flashTimers>>

handleSkip ==
    /\ autoRestartRef' = FALSE
    /\ phase' = nextPhase(phase)
    /\ timeLeft' = initialDuration(nextPhase(phase))
    /\ cue' = "none"
    /\ event' = "skip"
    /\ UNCHANGED <<isRunning, completedPomodoros, flash, intervals, flashTimers>>

\* handleReset
handleReset_toggles ==
    /\ autoRestartRef' = FALSE
    /\ isRunning' = ~isRunning
    /\ timeLeft' = initialDuration(phase)
    /\ intervals' = countdownEffect(isRunning, ~isRunning, intervals)
    /\ cue' = "none"
    /\ event' = "reset"
    /\ UNCHANGED <<phase, completedPomodoros, flash, flashTimers>>

handleReset_focusOnly ==
    /\ autoRestartRef' = FALSE
    /\ isRunning' = FALSE
    /\ timeLeft' = FOCUS_DURATION
    /\ intervals' = countdownEffect(isRunning, FALSE, intervals)
    /\ cue' = "none"
    /\ event' = "reset"
    /\ UNCHANGED <<phase, completedPomodoros, flash, flashTimers>>

handleReset ==
    /\ autoRestartRef' = FALSE
    /\ isRunning' = FALSE
    /\ timeLeft' = initialDuration(phase)
    /\ intervals' = countdownEffect(isRunning, FALSE, intervals)
    /\ cue' = "none"
    /\ event' = "reset"
    /\ UNCHANGED <<phase, completedPomodoros, flash, flashTimers>>

\* the guard of the expiry effect: if (timeLeft !== 0 || !isRunning) return
expiryDue_anyTime == timeLeft = 0

expiryDue == timeLeft = 0 /\ isRunning

\* the expiry effect, for a playBeep with the given audio capability
expiryEffect(audioAvailable) ==
    LET beep == playBeep(audioAvailable) IN
    /\ expiryDue
    /\ isRunning' = FALSE
    /\ intervals' = countdownEffect(isRunning, FALSE, intervals)
    /\ autoRestartRef' = TRUE
    /\ cue' = beep.cue
    /\ event' = "expiry"
    /\ IF beep.threw
       THEN UNCHANGED <<flash, flashTimers, phase, timeLeft, completedPomodoros>>
       ELSE /\ flash' = TRUE
            /\ flashTimers' = flashEffect(flash, TRUE, flashTimers)
            /\ phase' = nextPhase(phase)
            /\ timeLeft' = initialDuration(nextPhase(phase))
            /\ completedPomodoros' = completedAfterExpiry(phase, completedPomodoros)

\* the guard of the auto-restart effect: if (!autoRestartRef.current || isRunning) return
autoRestartDue_never == autoRestartRef /\ isRunning

autoRestartDue == autoRestartRef /\ ~isRunning

\* the auto-restart effect
autoRestartEffect_flashes ==
    /\ autoRestartDue
    /\ autoRestartRef' = FALSE
    /\ isRunning' = TRUE
    /\ intervals' = countdownEffect(isRunning, TRUE, intervals)
    /\ flash' = TRUE
    /\ flashTimers' = flashEffect(flash, TRUE, flashTimers)
    /\ cue' = "none"
    /\ event' = "autoRestart"
    /\ UNCHANGED <<phase, timeLeft, completedPomodoros>>

autoRestartEffect ==
    /\ autoRestartDue
    /\ autoRestartRef' = FALSE
    /\ isRunning' = TRUE
    /\ intervals' = countdownEffect(isRunning, TRUE, intervals)
    /\ cue' = "none"
    /\ event' = "autoRestart"
    /\ UNCHANGED <<phase, timeLeft, completedPomodoros, flash, flashTimers>>

\* setTimeout callback of the flash effect: setFlash(false); the timer that
\* fired is gone before the commit runs the effect's cleanup.
flashTimeout ==
    /\ flashTimers > 0
    /\ flash' = FALSE
    /\ flashTimers' = flashEffect(flash, FALSE, flashTimers - 1)
    /\ cue' = "none"
    /\ event' = "flashClear"
    /\ UNCHANGED <<phase, timeLeft, isRunning, completedPomodoros, autoRestartRef, intervals>>

(***************************************************************************)
(* Spec: any interleaving of ticks, commands, effects and the flash        *)
(* timeout.  The counters of the untouched run are not kept here.          *)
(***************************************************************************)
Tick == intervalTick /\ UNCHANGED obs

StartPause == handleStartPause /\ UNCHANGED obs

Skip == handleSkip /\ UNCHANGED obs

Reset == handleReset /\ UNCHANGED obs

Expiry ==
    /\ phase = "break" => completedPomodoros < MaxCompleted
    /\ \E audioAvailable \in BOOLEAN : expiryEffect(audioAvailable)
    /\ UNCHANGED obs

AutoRestart == autoRestartEffect /\ UNCHANGED obs

FlashClear == flashTimeout /\ UNCHANGED obs

Next == Tick \/ StartPause \/ Skip \/ Reset \/ Expiry \/ AutoRestart \/ FlashClear

Spec == Init /\ [][Next]_vars

(***************************************************************************)
(* SpecRun: the untouched run.  The start command is given once in the     *)
(* initial state and no other command follows; a tick comes a full second  *)
(* after the previous one, so it finds the effects of the previous tick    *)
(* already run.  The counters in obs record what happened.                 *)
(***************************************************************************)
settled == ~expiryDue /\ ~autoRestartDue

RunStart ==
    /\ event = "init"
    /\ handleStartPause
    /\ UNCHANGED obs

RunTick ==
    /\ obs.ticks < MaxTicks
    /\ settled                       \* the effects of the previous tick have run
    /\ intervalTick
    /\ obs' = [obs EXCEPT !.ticks = @ + 1]

RunExpiry ==
    /\ \E audioAvailable \in BOOLEAN : expiryEffect(audioAvailable)
    /\ obs' = [obs EXCEPT !.expiries = @ + 1,
                          !.beeps = @ + (IF cue' = "none" THEN 0 ELSE 1),
                          !.flashOn = @ + (IF flash' /\ flashTimers' > 0 THEN 1 ELSE 0),
                          !.armed = @ + (IF flashEffectRuns(flash, flash') /\ flash'
                                         THEN 1 ELSE 0)]

RunAutoRestart == autoRestartEffect /\ UNCHANGED obs

RunFlashClear ==
    /\ flashTimeout
    /\ obs' = [obs EXCEPT !.flashOff = @ + 1]

NextRun == RunStart \/ RunTick \/ RunExpiry \/ RunAutoRestart \/ RunFlashClear

SpecRun == Init /\ [][NextRun]_vars

\* Spec with the scheduling the callbacks have: a live interval keeps firing,
\* an effect whose guard passes runs, an armed timeout fires.  The commands
\* are the user's and have no fairness.
SpecFair ==
    /\ Spec
    /\ WF_vars(Tick)
    /\ WF_vars(Expiry)
    /\ WF_vars(AutoRestart)
    /\ WF_vars(FlashClear)

\* the untouched run with a flash timeout that fires once armed
SpecRunFair == SpecRun /\ WF_vars(RunFlashClear)

(***************************************************************************)
(* Properties.                                                             *)
(***************************************************************************)

\* C1: in every reachable state 0 <= timeLeft <= the full duration of the
\* current phase (1500 for focus, 300 for break); a tick never makes
\* timeLeft negative.
TimeLeftInRange ==
    /\ timeLeft >= 0
    /\ timeLeft <= (IF phase = "focus" THEN 1500 ELSE 300)

\* a tick has just been delivered with timeLeft at the floor
TickAtZero == event = "tick" /\ timeLeft = 0 /\ isRunning

\* C2: in every step completedPomodoros stays or grows by exactly 1, and it
\* grows exactly in the steps that are the natural expiry of a break
\* (the expiry effect acting on timeLeft = 0, running, break).
CompletedCountsBreakExpiries ==
    [][ /\ completedPomodoros' \in {completedPomodoros, completedPomodoros + 1}
        /\ (completedPomodoros' = completedPomodoros + 1)
             <=> (event' = "expiry" /\ phase = "break" /\ timeLeft = 0 /\ isRunning)
      ]_vars

\* a break has just expired and was counted, after a skip that was not
BreakExpiryCounted ==
    event = "expiry" /\ phase = "focus" /\ completedPomodoros = 1

\* C3: in the untouched run, once 1500 ticks are delivered and the effects
\* have run, exactly one expiry has happened, the timer is running in break
\* with timeLeft = 300, the audio cue was invoked once, flash was set once
\* and is false again exactly when its timeout has fired, and
\* completedPomodoros is still 0.
RunAfterFocus ==
    (obs.ticks = 1500 /\ settled) =>
        /\ phase = "break"
        /\ timeLeft = 300
        /\ isRunning
        /\ obs.expiries = 1
        /\ obs.beeps = 1
        /\ obs.flashOn = 1
        /\ completedPomodoros = 0
        /\ flash <=> flashTimers = 1
        /\ flash <=> obs.flashOff = 0
        /\ ~flash <=> obs.flashOff = 1

\* 1500 ticks delivered, the effects have run and the flash is cleared again
RunAfterFocusFlashCleared ==
    obs.ticks = 1500 /\ settled /\ ~flash /\ obs.flashOff = 1

\* C4: in the untouched run, 300 ticks after Running-Break(300), that is
\* once 1800 ticks are delivered and the effects have run, the timer is
\* running in focus with timeLeft = 1500, and completedPomodoros has grown
\* by exactly 1 (from 0 to 1) in the one break expiry.
RunAfterBreak ==
    (obs.ticks = 1800 /\ settled) =>
        /\ phase = "focus"
        /\ timeLeft = 1500
        /\ isRunning
        /\ completedPomodoros = 1
        /\ obs.expiries = 2
        /\ obs.beeps = 2

\* 1800 ticks delivered and the second auto-restart has run
RunAfterBreakRestarted ==
    obs.ticks = 1800 /\ settled /\ event = "autoRestart" /\ completedPomodoros = 1

\* C5: a skip step switches to the other phase at its full duration, keeps
\* isRunning (and the countdown interval) as it was, keeps
\* completedPomodoros, plays no cue and leaves the flash and its timeout alone.
SkipKeepsRunning ==
    [][ event' = "skip" =>
          /\ phase' \in Phase /\ phase' # phase
          /\ timeLeft' = (IF phase' = "focus" THEN 1500 ELSE 300)
          /\ isRunning' = isRunning
          /\ intervals' = intervals
          /\ completedPomodoros' = completedPomodoros
          /\ cue' = "none"
          /\ flash' = flash
          /\ flashTimers' = flashTimers
      ]_vars

\* skip was issued in Running-Focus: running, break, 300
SkippedWhileRunningFocus ==
    event = "skip" /\ isRunning /\ intervals = 1 /\ phase = "break" /\ timeLeft = 300

\* C6: a reset step stops the timer (no countdown interval is left), sets
\* timeLeft to the full duration of the current phase, keeps phase and
\* completedPomodoros, plays no cue and leaves the flash alone.
ResetStopsAndRefills ==
    [][ event' = "reset" =>
          /\ ~isRunning'
          /\ intervals' = 0
          /\ phase' = phase
          /\ timeLeft' = (IF phase = "focus" THEN 1500 ELSE 300)
          /\ completedPomodoros' = completedPomodoros
          /\ cue' = "none"
          /\ flash' = flash
          /\ flashTimers' = flashTimers
      ]_vars

\* reset was issued in break, after a completed pomodoro
ResetInBreak ==
    event = "reset" /\ phase = "break" /\ timeLeft = 300 /\ completedPomodoros = 1

\* C7: the expiry side effects happen only in an expiry step; an expiry step
\* starts with timeLeft = 0 and running and ends stopped with timeLeft above
\* 0, so it cannot repeat for the same expiry; only a tick from 1 while
\* running brings timeLeft to 0; and a tick step has none of the side effects.
ExpiryOncePerCrossing ==
    [][ /\ event' = "expiry" =>
              /\ timeLeft = 0 /\ isRunning
              /\ timeLeft' > 0 /\ ~isRunning'
              /\ cue' # "none"
        /\ (\/ cue' # "none"
            \/ (phase' # phase /\ event' # "skip")
            \/ completedPomodoros' # completedPomodoros
            \/ (~flash /\ flash'))
              => event' = "expiry"
        /\ (timeLeft # 0 /\ timeLeft' = 0) =>
              (event' = "tick" /\ timeLeft = 1 /\ isRunning)
        /\ event' = "tick" =>
              (cue' = "none" /\ phase' = phase /\ flash' = flash
                 /\ completedPomodoros' = completedPomodoros /\ isRunning' = isRunning)
      ]_vars

\* a focus phase has just expired with all its side effects, a second time
FocusExpiredAgain ==
    /\ event = "expiry" /\ cue = "played" /\ flash /\ ~isRunning
    /\ phase = "break" /\ timeLeft = 300 /\ completedPomodoros = 1

\* C8: a tick step is taken only while running, and from a not-running state
\* timeLeft changes only in a skip or a reset step.
NoTickWhileStopped ==
    [][ /\ event' = "tick" => isRunning
        /\ (~isRunning /\ timeLeft' # timeLeft) => event' \in {"skip", "reset"}
      ]_vars

\* paused in the middle of a countdown
PausedMidCountdown ==
    event = "startPause" /\ ~isRunning /\ timeLeft = 1498

\* C9: flash turns from false to true only in an expiry step (from
\* timeLeft = 0 while running).
FlashOnlyByExpiry ==
    [][ (~flash /\ flash') => (event' = "expiry" /\ timeLeft = 0 /\ isRunning) ]_vars

\* the auto-restart ran after the flash was already cleared
RestartedAfterFlashCleared ==
    event = "autoRestart" /\ ~flash /\ isRunning

\* C10: an expiry step has the same outcome whether the cue played or
\* failed: the failure is swallowed, running is stopped, phase and timeLeft
\* are switched, completedPomodoros grows for a break, flash is on with its
\* timeout armed, and the auto-restart signal is set so the restart follows.
ExpirySurvivesAudioFailure ==
    [][ event' = "expiry" =>
          /\ cue' \in {"played", "swallowed"}
          /\ ~isRunning'
          /\ intervals' = 0
          /\ phase' \in Phase /\ phase' # phase
          /\ timeLeft' = (IF phase' = "focus" THEN 1500 ELSE 300)
          /\ completedPomodoros' = completedPomodoros + (IF phase = "break" THEN 1 ELSE 0)
          /\ flash'
          /\ flashTimers' = 1
          /\ autoRestartRef'
      ]_vars

\* the timer runs again after an expiry whose cue failed in a break
RestartedAfterSwallowedCue ==
    /\ event = "expiry" /\ cue = "swallowed"
    /\ phase = "focus" /\ completedPomodoros = 1 /\ flash /\ autoRestartRef

\* C11: in every reachable state the button label is Pause exactly when
\* running, Start exactly when not running with timeLeft at the full duration
\* of the current phase, and Resume in every other state.
ButtonLabelMatchesState ==
    LET label == startLabel(isRunning, timeLeft, phase)
        full == IF phase = "focus" THEN 1500 ELSE 300
    IN /\ label \in {"Pause", "Start", "Resume"}
       /\ label = "Pause" <=> isRunning
       /\ label = "Start" <=> (~isRunning /\ timeLeft = full)
       /\ label = "Resume" <=> (~isRunning /\ timeLeft # full)

\* running at the full duration (label Pause, not Start), in a break
RunningAtFullBreak ==
    /\ isRunning /\ phase = "break" /\ timeLeft = 300
    /\ startLabel(isRunning, timeLeft, phase) = "Pause"

\* C12: for the reachable values n of completedPomodoros, filledDots is 0
\* for n = 0 and ((n - 1) mod 4) + 1 otherwise, always in 0..4, and
\* 0,1,2,3,4,1 for n = 0..5.
DotsFollowCount ==
    LET n == completedPomodoros
        d == filledDots(n)
    IN /\ d = (IF n = 0 THEN 0 ELSE ((n - 1) % 4) + 1)
       /\ d \in 0..4
       /\ n <= 5 => d = <<0, 1, 2, 3, 4, 1>>[n + 1]

\* the fifth pomodoro is completed: one dot of the second group
FifthPomodoroOneDot ==
    completedPomodoros = 5 /\ filledDots(completedPomodoros) = 1

\* C13: a reset step that follows a reset step changes nothing (phase,
\* timeLeft, isRunning, completedPomodoros, flash, the auto-restart signal
\* and the timers are as the first reset left them).
ResetIdempotent ==
    [][ (event = "reset" /\ event' = "reset") =>
          /\ phase' = phase
          /\ timeLeft' = timeLeft
          /\ isRunning' = isRunning
          /\ completedPomodoros' = completedPomodoros
          /\ flash' = flash
          /\ autoRestartRef' = autoRestartRef
          /\ intervals' = intervals
          /\ flashTimers' = flashTimers
      ]_vars

\* reset was issued between an expiry and its auto-restart, flash still on
ResetBeforeAutoRestart ==
    event = "reset" /\ flash /\ ~isRunning /\ ~autoRestartRef /\ phase = "break"

\* C14: no tick and no start/pause, skip or reset step is taken from a
\* half-transitioned state: neither from timeLeft = 0 with isRunning still
\* true (the expiry effect has not run yet) nor from a stopped timer whose
\* auto-restart has not fired yet.
CommandsSeeNoHalfTransition ==
    [][ event' \in {"tick", "startPause", "skip", "reset"} =>
          /\ ~(timeLeft = 0 /\ isRunning)
          /\ ~(autoRestartRef /\ ~isRunning)
      ]_vars

\* C15: exactly one countdown interval is live while isRunning is true and
\* none while it is false, a tick step is taken only while running, and a
\* tick step takes at most 1 off timeLeft.
OneDriverWhileRunning ==
    /\ [](intervals = (IF isRunning THEN 1 ELSE 0))
    /\ [][ event' = "tick" => (isRunning /\ (timeLeft - timeLeft') \in {0, 1}) ]_vars

\* the driver was activated afresh by the auto-restart, after two expiries
DriverReactivatedByAutoRestart ==
    event = "autoRestart" /\ isRunning /\ intervals = 1 /\ completedPomodoros = 1

\* C17: a start/pause step negates isRunning (and switches the countdown
\* interval with it) and changes nothing else, so a pause followed by a
\* resume gives back the state that was paused.
StartPauseOnlyToggles ==
    [][ event' = "startPause" =>
          /\ isRunning' = ~isRunning
          /\ intervals' = (IF isRunning' THEN 1 ELSE 0)
          /\ phase' = phase
          /\ timeLeft' = timeLeft
          /\ completedPomodoros' = completedPomodoros
          /\ flash' = flash
          /\ flashTimers' = flashTimers
          /\ autoRestartRef' = autoRestartRef
          /\ cue' = "none"
      ]_vars

\* resumed in the middle of a break countdown
ResumedMidBreak ==
    event = "startPause" /\ isRunning /\ phase = "break" /\ timeLeft = 297

commandGiven == event \in {"startPause", "skip", "reset"}

\* C19: from every reachable running state, unless a command is given, the
\* timer comes to run in the other phase at its full duration (for a break,
\* below the bound on completedPomodoros).
UntouchedTimerAlternates ==
    /\ (isRunning /\ phase = "focus" /\ ~commandGiven)
         ~> (commandGiven \/ (isRunning /\ phase = "break" /\ timeLeft = 300))
    /\ (isRunning /\ phase = "break" /\ ~commandGiven /\ completedPomodoros < MaxCompleted)
         ~> (commandGiven \/ (isRunning /\ phase = "focus" /\ timeLeft = 1500))

\* the timer runs in focus again after a break expired on its own, the
\* last command having been a skip
FocusRestartedAfterBreak ==
    /\ event = "autoRestart" /\ isRunning /\ phase = "focus" /\ timeLeft = 1500
    /\ completedPomodoros = 2

====
